---- MODULE Spec2Model ----
(***************************************************************************)
(* Directional audio guidance: the AudioEngine of src/lib/AudioEngine.ts   *)
(* (chime engine, lines 1-192) and the guidance loop of src/app/page.tsx   *)
(* (lines 1-316) that drives it.                                           *)
(*                                                                         *)
(* Angles are fixed-point, one unit = 0.01 degree (Deg(d) = 100 * d).      *)
(* Wall-clock time (Date.now()) is in milliseconds.                        *)
(***************************************************************************)
EXTENDS Integers, Sequences, FiniteSets, TLC

VARIABLES
    \* ---- AudioEngine fields (AudioEngine.ts:3-11)
    context,            \* NULL or the AudioContext, by its state: "suspended" | "running" | "closed"
    masterGain,         \* NULL or "GainNode"
    lastTriggerTime,    \* ms, 0 after construction
    droneOscillators,   \* sequence of oscillator frequencies
    droneGain,          \* NULL or the drone GainNode, by its gain ramp: "rampTo0.2" | "rampTo0"
    lfo,                \* NULL or "Oscillator"
    \* ---- the browser: clock, timers, promises
    now,                \* Date.now()
    timers,             \* deadlines of the pending setTimeout callbacks of stopDrone
    closes,             \* pending settlements of context.close(): "resolve" / "reject"
    audioAvailable,     \* whether `new AudioContext()` succeeds in this browser
    voices,             \* chime voices scheduled on the current context, by the time their
                        \* envelope ends
    \* ---- observations of the engine's behaviour
    chimes,             \* every chime played so far: [kind, at]
    lastUpdate,         \* Some of what the update() call just made saw and did; None after any other event
    row,                \* the latest lifecycle call (init, start, stop) and how many times
                        \* it has now been made in a row: [op, n]
    escaped,            \* TRUE once an exception has left an engine method
    cut,                \* TRUE once close() has silenced a chime before the end of its envelope
    lastTick,           \* Some of what the animate() call just made saw and did: [prev, raw, next];
                        \* None after any other event
    tick,               \* flips on every animate() call
    \* ---- Home component (page.tsx:14-29)
    phase,              \* "unmounted" | "mounted" | "torndown"
    permissionGranted,
    coords,             \* None or Some [latitude, longitude]
    heading,            \* None or Some of the smoothed heading (React state)
    error,              \* error string shown to the user
    audioStarted,
    headingRef,         \* None or Some of the raw heading (headingRef.current)
    frameScheduled,     \* a requestAnimationFrame callback is pending (requestRef)
    geoWatch,           \* the geolocation watch is registered
    orientationListener,\* the deviceorientation listener is registered
    pendingSync,        \* None or Some of the [heading, coords] captured by the render whose
                        \* audio-sync effect has not run yet
    \* ---- route state machine (spec section 4.3)
    routeState,         \* "Idle" | "Navigating" | "Completed"
    waypointCount,      \* length of the waypoint list
    currentWaypointIndex,
    minDistanceSoFar,   \* proximity tracker: None ("unset") or Some metres
    sinceFetch,         \* time since the last route request: "never" | "within" the cooldown
                        \* window | "elapsed"
    pendingFetches,     \* route requests not answered yet
    \* ---- observations of the route state machine
    arrivals,           \* arrival fixes processed since the list was last replaced
    reroutes,           \* reroute requests issued since the list was last replaced
    diverged,           \* a fix has diverged since the list was last replaced
    lastFix,            \* Some of what the fix just processed saw and did; None after any
                        \* other event
    \* ---- geodesy utilities (utils.ts)
    measured            \* None or Some of the calculateDistance calls just made for a pair of
                        \* points: [a, b, ab, ba, aa]

engineVars == <<context, masterGain, lastTriggerTime, droneOscillators, droneGain, lfo>>
browserVars == <<now, timers, closes, audioAvailable, voices>>
ghostVars == <<chimes, lastUpdate, row, escaped, cut, lastTick, tick>>
pageVars == <<phase, permissionGranted, coords, heading, error, audioStarted,
              headingRef, frameScheduled, geoWatch, orientationListener, pendingSync>>
routeVars == <<routeState, waypointCount, currentWaypointIndex, minDistanceSoFar,
               sinceFetch, pendingFetches, arrivals, reroutes, diverged, lastFix>>
geoVars == <<measured>>
vars == <<engineVars, browserVars, ghostVars, pageVars, routeVars, geoVars>>

NULL == "null"

\* a value that may be null: None, or Some(v) whose value is Some(v)[1]
None == <<>>

Some(v) == <<v>>

Deg(d) == 100 * d

Abs(x) == IF x < 0 THEN -x ELSE x

(***************************************************************************)
(* Bounds of the model.                                                    *)
(***************************************************************************)
StartTime == 5000       \* Date.now() at the start of a run (epoch ms are far above the cooldown)
MaxTime == 7200         \* the clock stops advancing here
MaxPending == 2         \* cap on pending timers / pending close() settlements
MaxInRow == 2           \* cap on consecutive calls of the same lifecycle method

ConvergeTicks == 50     \* ticks within which a held raw heading is reached
Tolerance == 3          \* ... to within this many units (0.03 degree)

Deltas == {900, 1100}   \* amounts by which the clock advances between events

(***************************************************************************)
(* Program constants.                                                      *)
(***************************************************************************)
CooldownMs == 2000          \* AudioEngine.ts:165
ConeDeg == 15               \* AudioEngine.ts:171
DroneCleanupMs == 1100      \* AudioEngine.ts:110
DroneFrequencies == <<220, 330, 440, 660>>   \* AudioEngine.ts:57
WaypointChimeMs == 250      \* AudioEngine.ts:132 (second tap: 0.15 s + 0.1 s)
SparkleChimeMs == 2000      \* AudioEngine.ts:143 (the longer partial)

(***************************************************************************)
(* The engine and everything its methods touch, as one record, so that the *)
(* methods compose the way the code calls them.                            *)
(***************************************************************************)
World ==
    [context |-> context, masterGain |-> masterGain,
     lastTriggerTime |-> lastTriggerTime, droneOscillators |-> droneOscillators,
     droneGain |-> droneGain, lfo |-> lfo,
     timers |-> timers, closes |-> closes, chimes |-> chimes, escaped |-> escaped,
     cut |-> cut, voices |-> voices]

SetWorld(w) ==
    /\ context' = w.context
    /\ masterGain' = w.masterGain
    /\ lastTriggerTime' = w.lastTriggerTime
    /\ droneOscillators' = w.droneOscillators
    /\ droneGain' = w.droneGain
    /\ lfo' = w.lfo
    /\ timers' = w.timers
    /\ closes' = w.closes
    /\ chimes' = w.chimes
    /\ escaped' = w.escaped
    /\ cut' = w.cut
    /\ voices' = w.voices

\* AudioEngine.init: `ctor` is what `new AudioContextClass()` does here:
\* "throws", or the state of the context it returns.
initNoCatch(w, ctor) ==
    IF w.context # NULL THEN w
    ELSE IF ctor = "throws" THEN [w EXCEPT !.escaped = TRUE]
    ELSE [w EXCEPT !.context = ctor, !.masterGain = "GainNode"]

init(w, ctor) ==
    IF w.context # NULL THEN w
    ELSE IF ctor = "throws" THEN w      \* catch (e): debugLog only
    ELSE [w EXCEPT !.context = ctor, !.masterGain = "GainNode"]

\* AudioEngine.startDrone
startDroneNoGuard(w) ==
    IF w.context = NULL \/ w.masterGain = NULL THEN w
    ELSE [w EXCEPT !.droneGain = "rampTo0.2",
                   !.droneOscillators = @ \o DroneFrequencies,
                   !.lfo = "Oscillator"]

startDrone(w) ==
    IF w.context = NULL \/ w.masterGain = NULL \/ Len(w.droneOscillators) > 0 THEN w
    ELSE [w EXCEPT !.droneGain = "rampTo0.2",
                   !.droneOscillators = @ \o DroneFrequencies,
                   !.lfo = "Oscillator"]

\* AudioEngine.start
start(w, ctor) ==
    LET w1 == IF w.context = NULL THEN init(w, ctor) ELSE w
    IN  IF w1.context = NULL THEN w1
        ELSE LET w2 == IF w1.context = "suspended"
                       THEN [w1 EXCEPT !.context = "running"]
                       ELSE w1
             IN  startDrone(w2)

\* AudioEngine.stopDrone at wall-clock time t
stopDrone(w, t) ==
    IF w.context = NULL THEN w
    ELSE LET w1 == IF w.droneGain # NULL
                   THEN [w EXCEPT !.droneGain = "rampTo0"]
                   ELSE w
         IN  [w1 EXCEPT !.timers = Append(@, t + DroneCleanupMs)]

\* the setTimeout callback of stopDrone (AudioEngine.ts:100-110)
droneCleanup(w) ==
    [w EXCEPT !.droneOscillators = <<>>, !.lfo = NULL, !.droneGain = NULL]

\* AudioEngine.stop at wall-clock time t. close() on a context that is already
\* closed returns a promise that rejects; the first close() resolves.
\* Closing a context ends its rendering at once: a voice still inside its envelope
\* is silenced there.
stop(w, t) ==
    LET w1 == stopDrone(w, t)
    IN  IF w1.context = NULL THEN w1
        ELSE [w1 EXCEPT !.closes = Append(@, IF w1.context = "closed"
                                             THEN "reject" ELSE "resolve"),
                        !.context = "closed",
                        !.cut = @ \/ (\E i \in 1..Len(w1.voices) : w1.voices[i] > t),
                        !.voices = <<>>]

\* .then(() => { this.context = null; this.masterGain = null; })
closeResolved(w) == [w EXCEPT !.context = NULL, !.masterGain = NULL]

\* .catch(() => { })
closeRejected(w) == w

\* AudioEngine.playWaypoint / playSparkle at wall-clock time t
\* the voices still inside their envelope at time t, and one more ending at `ends`
\* unless the context is closed (nodes of a closed context never sound)
Scheduled(w, t, ends) ==
    LET live == SelectSeq(w.voices, LAMBDA v : v > t)
    IN  IF w.context = "closed" THEN live ELSE Append(live, ends)

playWaypoint(w, t) ==
    IF w.context = NULL \/ w.masterGain = NULL THEN w
    ELSE [w EXCEPT !.chimes = Append(@, [kind |-> "waypoint", at |-> t]),
                   !.voices = Scheduled(w, t, t + WaypointChimeMs)]

playSparkle(w, t) ==
    IF w.context = NULL \/ w.masterGain = NULL THEN w
    ELSE [w EXCEPT !.chimes = Append(@, [kind |-> "destination", at |-> t]),
                   !.voices = Scheduled(w, t, t + SparkleChimeMs)]

\* the two while loops of checkMatch (AudioEngine.ts:169-170)
RECURSIVE shortestPath(_)
shortestPath(diff) ==
    IF diff < -Deg(180) THEN shortestPath(diff + Deg(360))
    ELSE IF diff > Deg(180) THEN shortestPath(diff - Deg(360))
    ELSE diff

checkMatchSigned(heading_, bearing) == shortestPath(bearing - heading_) < Deg(ConeDeg)

checkMatch(heading_, bearing) == Abs(shortestPath(bearing - heading_)) < Deg(ConeDeg)

\* now - this.lastTriggerTime < 2000 -> return
cooldownActiveShort(w, t) == t - w.lastTriggerTime < CooldownMs \div 2

cooldownActive(w, t) == t - w.lastTriggerTime < CooldownMs

\* AudioEngine.update at wall-clock time t
updateDestinationFirst(w, heading_, targetBearing, waypointBearing, t) ==
    IF w.context = NULL THEN w
    ELSE IF cooldownActive(w, t) THEN w
    ELSE IF checkMatch(heading_, targetBearing)
         THEN [playSparkle(w, t) EXCEPT !.lastTriggerTime = t]
    ELSE IF waypointBearing # None /\ checkMatch(heading_, waypointBearing[1])
         THEN [playWaypoint(w, t) EXCEPT !.lastTriggerTime = t]
    ELSE w

updateNoStamp(w, heading_, targetBearing, waypointBearing, t) ==
    IF w.context = NULL THEN w
    ELSE IF cooldownActive(w, t) THEN w
    ELSE IF waypointBearing # None /\ checkMatch(heading_, waypointBearing[1])
         THEN [playWaypoint(w, t) EXCEPT !.lastTriggerTime = t]
    ELSE IF checkMatch(heading_, targetBearing)
         THEN playSparkle(w, t)
    ELSE w

updateNoContextGuard(w, heading_, targetBearing, waypointBearing, t) ==
    IF cooldownActive(w, t) THEN w
    ELSE IF waypointBearing # None /\ checkMatch(heading_, waypointBearing[1])
         THEN [w EXCEPT !.chimes = Append(@, [kind |-> "waypoint", at |-> t]),
                        !.lastTriggerTime = t]
    ELSE IF checkMatch(heading_, targetBearing)
         THEN [w EXCEPT !.chimes = Append(@, [kind |-> "destination", at |-> t]),
                        !.lastTriggerTime = t]
    ELSE w

update(w, heading_, targetBearing, waypointBearing, t) ==
    IF w.context = NULL THEN w
    ELSE IF cooldownActive(w, t) THEN w
    ELSE IF waypointBearing # None /\ checkMatch(heading_, waypointBearing[1])
         THEN [playWaypoint(w, t) EXCEPT !.lastTriggerTime = t]
    ELSE IF checkMatch(heading_, targetBearing)
         THEN [playSparkle(w, t) EXCEPT !.lastTriggerTime = t]
    ELSE w

\* what an update() call saw and did
Observation(w, w2, heading_, targetBearing, waypointBearing, t) ==
    [heading |-> heading_, targetBearing |-> targetBearing,
     waypointBearing |-> waypointBearing,
     inert |-> (w.context = NULL),
     elapsed |-> (t - w.lastTriggerTime >= CooldownMs),
     fired |-> [i \in 1..(Len(w2.chimes) - Len(w.chimes)) |->
                    w2.chimes[Len(w.chimes) + i].kind],
     stamped |-> (w2.lastTriggerTime = t),
     changed |-> (w2 # w)]

(***************************************************************************)
(* The engine driven directly through its public methods.                  *)
(***************************************************************************)
\* the arguments update() is called with: [heading, targetBearing, waypointBearing]
UpdateInputs ==
    {[heading |-> Deg(355), targetBearing |-> Deg(5), waypointBearing |-> Some(Deg(5))],
     [heading |-> Deg(355), targetBearing |-> Deg(5), waypointBearing |-> None],
     [heading |-> Deg(355), targetBearing |-> Deg(5), waypointBearing |-> Some(Deg(1000))],
     [heading |-> Deg(355), targetBearing |-> Deg(10), waypointBearing |-> None],
     [heading |-> Deg(270), targetBearing |-> Deg(10), waypointBearing |-> Some(Deg(1000))],
     [heading |-> Deg(270), targetBearing |-> Deg(5), waypointBearing |-> Some(Deg(5))]}

\* an event other than animate(): nothing of the rendering tick is touched
Elsewhere == lastTick' = None /\ UNCHANGED <<tick, routeVars, geoVars>>

\* what `new AudioContextClass()` can do (AudioEngine.ts:28)
CtorOutcomes == IF audioAvailable THEN {"suspended", "running"} ELSE {"throws"}

\* bookkeeping of consecutive lifecycle calls
Called(op) == [op |-> op, n |-> IF row.op = op THEN row.n + 1 ELSE 1]

MayCall(op) == row.op = op => row.n < MaxInRow

CallInit ==
    /\ MayCall("init")
    /\ \E ctor \in CtorOutcomes : SetWorld(init(World, ctor))
    /\ row' = Called("init")
    /\ lastUpdate' = None
    /\ Elsewhere
    /\ UNCHANGED <<now, audioAvailable, pageVars>>

CallStart ==
    /\ MayCall("start")
    /\ \E ctor \in CtorOutcomes : SetWorld(start(World, ctor))
    /\ row' = Called("start")
    /\ lastUpdate' = None
    /\ Elsewhere
    /\ UNCHANGED <<now, audioAvailable, pageVars>>

CallUpdate ==
    /\ \E in \in UpdateInputs :
          LET w2 == update(World, in.heading, in.targetBearing, in.waypointBearing, now)
          IN  /\ SetWorld(w2)
              /\ lastUpdate' = Some(Observation(World, w2, in.heading, in.targetBearing,
                                                in.waypointBearing, now))
    /\ Elsewhere
    /\ UNCHANGED <<now, audioAvailable, row, pageVars>>

CallStop ==
    /\ MayCall("stop")
    /\ Len(timers) < MaxPending
    /\ Len(closes) < MaxPending
    /\ SetWorld(stop(World, now))
    /\ row' = Called("stop")
    /\ lastUpdate' = None
    /\ Elsewhere
    /\ UNCHANGED <<now, audioAvailable, pageVars>>

\* a setTimeout callback of stopDrone runs once its delay has passed
TimerFires ==
    /\ timers # <<>>
    /\ now >= Head(timers)
    /\ SetWorld([droneCleanup(World) EXCEPT !.timers = Tail(timers)])
    /\ lastUpdate' = None
    /\ Elsewhere
    /\ UNCHANGED <<now, audioAvailable, row, pageVars>>

Remove(s, i) == SubSeq(s, 1, i - 1) \o SubSeq(s, i + 1, Len(s))

\* a close() promise settles
CloseSettles ==
    /\ \E i \in 1..Len(closes) :
          LET w == [World EXCEPT !.closes = Remove(closes, i)]
          IN  SetWorld(IF closes[i] = "resolve" THEN closeResolved(w) ELSE closeRejected(w))
    /\ lastUpdate' = None
    /\ Elsewhere
    /\ UNCHANGED <<now, audioAvailable, row, pageVars>>

\* the clock moves on; a pending effect runs within the frame that scheduled it
Advance ==
    /\ pendingSync = None
    /\ \E d \in Deltas : now + d <= MaxTime /\ now' = now + d
    /\ lastUpdate' = None
    /\ Elsewhere
    /\ UNCHANGED <<engineVars, timers, closes, audioAvailable, voices,
                   chimes, row, escaped, cut, pageVars>>

Init ==
    /\ context = NULL /\ masterGain = NULL /\ lastTriggerTime = 0
    /\ droneOscillators = <<>> /\ droneGain = NULL /\ lfo = NULL
    /\ now = StartTime /\ timers = <<>> /\ closes = <<>> /\ audioAvailable \in BOOLEAN
    /\ voices = <<>>
    /\ chimes = <<>> /\ lastUpdate = None /\ row = [op |-> "none", n |-> 0] /\ escaped = FALSE
    /\ cut = FALSE /\ lastTick = None /\ tick = FALSE
    /\ phase = "unmounted" /\ permissionGranted = FALSE /\ coords = None
    /\ heading = None /\ error = "" /\ audioStarted = FALSE /\ headingRef = None
    /\ frameScheduled = FALSE /\ geoWatch = FALSE /\ orientationListener = FALSE
    /\ pendingSync = None
    /\ routeState = "Idle" /\ waypointCount = 0 /\ currentWaypointIndex = 0
    /\ minDistanceSoFar = None /\ sinceFetch = "never" /\ pendingFetches = 0
    /\ arrivals = 0 /\ reroutes = 0 /\ diverged = FALSE /\ lastFix = None
    /\ measured = None

NextEngine ==
    \/ CallInit
    \/ CallStart
    \/ CallUpdate
    \/ CallStop
    \/ TimerFires
    \/ CloseSettles
    \/ Advance

SpecEngine == Init /\ [][NextEngine]_vars

(***************************************************************************)
(* The guidance loop: the Home component of page.tsx.                      *)
(* Coordinates are fixed-point, one unit = 0.0001 degree.                  *)
(***************************************************************************)
TARGET_LAT == 332820
TARGET_LON == 1315064

\* calculateBearing (page.tsx:72-84), tabulated: the source's formula needs sin, cos
\* and atan2 on doubles, so each entry is the formula's value at that start point,
\* rounded to 0.01 degree (69.50207 and 290.49793 degrees; atan2(0, 0) = 0 at the
\* destination itself).
calculateBearing(startLat, startLon, destLat, destLon) ==
    CASE startLat = destLat /\ startLon = destLon -> 0
      [] <<startLat, startLon, destLat, destLon>> = <<332800, 1315000, 332820, 1315064>> -> 6950
      [] <<startLat, startLon, destLat, destLon>> = <<332800, 1315128, 332820, 1315064>> -> 29050

\* the fixes the position sensor can deliver
Positions ==
    {[latitude |-> 332800, longitude |-> 1315000],
     [latitude |-> 332800, longitude |-> 1315128]}

\* the samples the orientation sensor can deliver: webkitCompassHeading (iOS) and alpha
OrientationEvents ==
    {[webkitCompassHeading |-> Some(6950), alpha |-> None],
     [webkitCompassHeading |-> Some(7050), alpha |-> None],
     [webkitCompassHeading |-> None, alpha |-> Some(6950)]}

\* handleOrientation's headingValue (page.tsx:142-151); a webkitCompassHeading of 0
\* is falsy
headingValueOf(event) ==
    IF event.webkitCompassHeading # None /\ event.webkitCompassHeading[1] # 0
    THEN event.webkitCompassHeading[1]
    ELSE IF event.alpha # None THEN Deg(360) - event.alpha[1]
    ELSE 0

\* x * 0.15 to the nearest unit
BlendSlow(x) == IF x >= 0 THEN (x * 15 + 500) \div 1000 ELSE -((-x * 15 + 500) \div 1000)

Blend(x) == IF x >= 0 THEN (x * 15 + 50) \div 100 ELSE -((-x * 15 + 50) \div 100)

\* the updater passed to setHeading in animate (page.tsx:39-58)
smoothReversed(prev, raw) ==
    IF prev = None THEN raw
    ELSE LET diff == shortestPath(prev[1] - raw[1])
         IN  IF Abs(diff) > Deg(100) THEN raw
             ELSE Some((prev[1] + Blend(diff) + Deg(360)) % Deg(360))

smoothNoWrap(prev, raw) ==
    IF prev = None THEN raw
    ELSE LET diff == shortestPath(raw[1] - prev[1])
         IN  IF Abs(diff) > Deg(100) THEN raw
             ELSE Some(prev[1] + Blend(diff))

smoothSnapAbove175(prev, raw) ==
    IF prev = None THEN raw
    ELSE LET diff == shortestPath(raw[1] - prev[1])
         IN  IF Abs(diff) > Deg(175) THEN raw
             ELSE Some((prev[1] + Blend(diff) + Deg(360)) % Deg(360))

smooth(prev, raw) ==
    IF prev = None THEN raw
    ELSE LET diff == shortestPath(raw[1] - prev[1])
         IN  IF Abs(diff) > Deg(100) THEN raw
             ELSE Some((prev[1] + Blend(diff) + Deg(360)) % Deg(360))

\* a render that changed `heading` or `coords` leaves the audio-sync effect to run,
\* with the values that render saw
Captured(h, c) == Some([heading |-> h, coords |-> c])

\* mount effect (page.tsx:31-65): the first frame is requested
Mount ==
    /\ phase = "unmounted"
    /\ phase' = "mounted"
    /\ frameScheduled' = TRUE
    /\ lastUpdate' = None
    /\ Elsewhere
    /\ UNCHANGED <<engineVars, browserVars, chimes, row, escaped, cut,
                   permissionGranted, coords, heading, error, audioStarted,
                   headingRef, geoWatch, orientationListener, pendingSync>>

\* requestPermission (page.tsx:86-112): `response` is what the sensor permission
\* request does: "none" (no requestPermission on this platform), "granted",
\* "denied" or "throws"
requestPermission(ctor1, ctor2, response) ==
    /\ phase = "mounted"
    /\ ~permissionGranted
    /\ pendingSync = None
    /\ IF ~audioStarted
       THEN /\ SetWorld(start(init(World, ctor1), ctor2))
            /\ audioStarted' = TRUE
       ELSE /\ SetWorld(World)
            /\ UNCHANGED audioStarted
    /\ permissionGranted' = (response \in {"none", "granted"})
    /\ error' = CASE response = "denied" -> "Sensor Permission denied"
                  [] response = "throws" -> "sensor permission error"
                  [] OTHER -> error
    /\ row' = IF audioStarted THEN row ELSE [op |-> "start", n |-> 1]
    /\ lastUpdate' = None
    /\ Elsewhere
    /\ UNCHANGED <<now, audioAvailable, phase, coords, heading, headingRef,
                   frameScheduled, geoWatch, orientationListener, pendingSync>>

RequestPermission ==
    \E ctor1 \in CtorOutcomes, ctor2 \in CtorOutcomes,
       response \in {"none", "granted", "denied", "throws"} :
        requestPermission(ctor1, ctor2, response)

\* sensor effect (page.tsx:114-162): runs once permissionGranted has become true
SensorEffect ==
    /\ phase = "mounted"
    /\ permissionGranted
    /\ ~geoWatch
    /\ geoWatch' = TRUE
    /\ orientationListener' = TRUE
    /\ lastUpdate' = None
    /\ Elsewhere
    /\ UNCHANGED <<engineVars, browserVars, chimes, row, escaped, cut,
                   phase, permissionGranted, coords, heading, error, audioStarted,
                   headingRef, frameScheduled, pendingSync>>

\* watchPosition success callback (page.tsx:119-125)
positionFix(p) ==
    /\ geoWatch
    /\ pendingSync = None
    /\ coords' = Some(p)
    /\ error' = ""
    /\ pendingSync' = Captured(heading, Some(p))
    /\ lastUpdate' = None
    /\ Elsewhere
    /\ UNCHANGED <<engineVars, browserVars, chimes, row, escaped, cut,
                   phase, permissionGranted, heading, audioStarted, headingRef,
                   frameScheduled, geoWatch, orientationListener>>

PositionFix == \E p \in Positions : positionFix(p)

\* watchPosition error callback (page.tsx:126-132)
PositionErrorDropsFix ==
    /\ geoWatch
    /\ pendingSync = None
    /\ \E code \in {1, 2, 3} :
          error' = CASE code = 1 -> "Location Access Denied. Please allow in settings."
                     [] code = 3 -> "GPS Timeout. Moving to open area may help."
                     [] OTHER -> "GPS Error"
    /\ coords' = None
    /\ lastUpdate' = None
    /\ Elsewhere
    /\ UNCHANGED <<engineVars, browserVars, chimes, row, escaped, cut,
                   phase, permissionGranted, heading, audioStarted, headingRef,
                   frameScheduled, geoWatch, orientationListener, pendingSync>>

PositionError ==
    /\ geoWatch
    /\ pendingSync = None
    /\ \E code \in {1, 2, 3} :
          error' = CASE code = 1 -> "Location Access Denied. Please allow in settings."
                     [] code = 3 -> "GPS Timeout. Moving to open area may help."
                     [] OTHER -> "GPS Error"
    /\ lastUpdate' = None
    /\ Elsewhere
    /\ UNCHANGED <<engineVars, browserVars, chimes, row, escaped, cut,
                   phase, permissionGranted, coords, heading, audioStarted, headingRef,
                   frameScheduled, geoWatch, orientationListener, pendingSync>>

\* handleOrientation (page.tsx:141-160)
handleOrientationSetsHeading(event) ==
    /\ orientationListener
    /\ headingRef' = Some(headingValueOf(event))
    /\ heading' = Some(headingValueOf(event))
    /\ lastUpdate' = None
    /\ Elsewhere
    /\ UNCHANGED <<engineVars, browserVars, chimes, row, escaped, cut,
                   phase, permissionGranted, coords, error, audioStarted,
                   frameScheduled, geoWatch, orientationListener, pendingSync>>

handleOrientation(event) ==
    /\ orientationListener
    /\ headingRef' = Some(headingValueOf(event))
    /\ lastUpdate' = None
    /\ Elsewhere
    /\ UNCHANGED <<engineVars, browserVars, chimes, row, escaped, cut,
                   phase, permissionGranted, coords, heading, error, audioStarted,
                   frameScheduled, geoWatch, orientationListener, pendingSync>>

Orientation == \E event \in OrientationEvents : handleOrientation(event)

\* animate (page.tsx:37-61): one rendering tick; the frame is requested again
AnimateOnlyWithHeading ==
    /\ frameScheduled
    /\ pendingSync = None
    /\ IF headingRef # None
       THEN /\ heading' = smooth(heading, headingRef)
            /\ pendingSync' = IF heading' # heading
                              THEN Captured(heading', coords) ELSE None
       ELSE UNCHANGED <<heading, pendingSync>>
    /\ lastTick' = IF headingRef # None
                   THEN Some([prev |-> heading, raw |-> headingRef[1], next |-> heading'])
                   ELSE None
    /\ tick' = ~tick
    /\ UNCHANGED <<routeVars, geoVars>>
    /\ frameScheduled' = (headingRef # None)
    /\ lastUpdate' = None
    /\ UNCHANGED <<engineVars, browserVars, chimes, row, escaped, cut,
                   phase, permissionGranted, coords, error, audioStarted, headingRef,
                   geoWatch, orientationListener>>

Animate ==
    /\ frameScheduled
    /\ pendingSync = None
    /\ IF headingRef # None
       THEN /\ heading' = smooth(heading, headingRef)
            /\ pendingSync' = IF heading' # heading
                              THEN Captured(heading', coords) ELSE None
       ELSE UNCHANGED <<heading, pendingSync>>
    /\ lastTick' = IF headingRef # None
                   THEN Some([prev |-> heading, raw |-> headingRef[1], next |-> heading'])
                   ELSE None
    /\ tick' = ~tick
    /\ UNCHANGED <<routeVars, geoVars>>
    /\ frameScheduled' = TRUE
    /\ lastUpdate' = None
    /\ UNCHANGED <<engineVars, browserVars, chimes, row, escaped, cut,
                   phase, permissionGranted, coords, error, audioStarted, headingRef,
                   geoWatch, orientationListener>>

\* audio-sync effect (page.tsx:171-181)
SyncEffectRaw ==
    /\ pendingSync # None
    /\ LET c == pendingSync[1]
       IN  IF c.coords # None /\ headingRef # None
           THEN LET targetBearing == calculateBearing(c.coords[1].latitude,
                                        c.coords[1].longitude, TARGET_LAT, TARGET_LON)
                    w2 == update(World, headingRef[1], targetBearing, Some(Deg(1000)), now)
                IN  /\ SetWorld(w2)
                    /\ lastUpdate' = Some(Observation(World, w2, headingRef[1],
                                              targetBearing, Some(Deg(1000)), now))
           ELSE /\ SetWorld(World)
                /\ lastUpdate' = None
    /\ Elsewhere
    /\ pendingSync' = None
    /\ UNCHANGED <<now, audioAvailable, row, phase, permissionGranted, coords, heading, error,
                   audioStarted, headingRef, frameScheduled, geoWatch,
                   orientationListener>>

SyncEffectUnguarded ==
    /\ pendingSync # None
    /\ LET c == pendingSync[1]
       IN  IF c.coords # None
           THEN LET targetBearing == calculateBearing(c.coords[1].latitude,
                                        c.coords[1].longitude, TARGET_LAT, TARGET_LON)
                    w2 == update(World, (IF c.heading = None THEN 0 ELSE c.heading[1]), targetBearing, Some(Deg(1000)), now)
                IN  /\ SetWorld(w2)
                    /\ lastUpdate' = Some(Observation(World, w2, (IF c.heading = None THEN 0 ELSE c.heading[1]),
                                              targetBearing, Some(Deg(1000)), now))
           ELSE /\ SetWorld(World)
                /\ lastUpdate' = None
    /\ Elsewhere
    /\ pendingSync' = None
    /\ UNCHANGED <<now, audioAvailable, row, phase, permissionGranted, coords, heading, error,
                   audioStarted, headingRef, frameScheduled, geoWatch,
                   orientationListener>>

SyncEffect ==
    /\ pendingSync # None
    /\ LET c == pendingSync[1]
       IN  IF c.coords # None /\ c.heading # None
           THEN LET targetBearing == calculateBearing(c.coords[1].latitude,
                                        c.coords[1].longitude, TARGET_LAT, TARGET_LON)
                    w2 == update(World, c.heading[1], targetBearing, Some(Deg(1000)), now)
                IN  /\ SetWorld(w2)
                    /\ lastUpdate' = Some(Observation(World, w2, c.heading[1],
                                              targetBearing, Some(Deg(1000)), now))
           ELSE /\ SetWorld(World)
                /\ lastUpdate' = None
    /\ Elsewhere
    /\ pendingSync' = None
    /\ UNCHANGED <<now, audioAvailable, row, phase, permissionGranted, coords, heading, error,
                   audioStarted, headingRef, frameScheduled, geoWatch,
                   orientationListener>>

\* teardown: the cleanups of the mount effect (page.tsx:64) and of the sensor
\* effect (page.tsx:164-167)
Unmount ==
    /\ phase = "mounted"
    /\ pendingSync = None
    /\ phase' = "torndown"
    /\ frameScheduled' = FALSE
    /\ geoWatch' = FALSE
    /\ orientationListener' = FALSE
    /\ lastUpdate' = None
    /\ Elsewhere
    /\ UNCHANGED <<engineVars, browserVars, chimes, row, escaped, cut,
                   permissionGranted, coords, heading, error, audioStarted,
                   headingRef, pendingSync>>

Next ==
    \/ Mount
    \/ RequestPermission
    \/ SensorEffect
    \/ PositionFix
    \/ PositionError
    \/ Orientation
    \/ Animate
    \/ SyncEffect
    \/ Unmount
    \/ Advance

Spec == Init /\ [][Next]_vars

\* The loop under the browser's scheduling: a requested animation frame is run at
\* the next display refresh however often effects and sensor callbacks run in
\* between, and a render's effect is run.
NextLoop ==
    \/ Mount
    \/ RequestPermission
    \/ SensorEffect
    \/ PositionFix
    \/ PositionError
    \/ Orientation
    \/ Animate
    \/ SyncEffect
    \/ Unmount

SpecLoop == Init /\ [][NextLoop]_vars /\ SF_vars(Animate) /\ WF_vars(SyncEffect)

(***************************************************************************)
(* The held-heading scenario: the position sensor reports one place, the   *)
(* orientation sensor one heading, for the whole run.                      *)
(***************************************************************************)
HeldPosition == [latitude |-> 332800, longitude |-> 1315000]

HeldBearing ==
    calculateBearing(HeldPosition.latitude, HeldPosition.longitude, TARGET_LAT, TARGET_LON)

\* the heading held: exactly the bearing to the destination, or 90 degrees off it
HeldEvents ==
    {[webkitCompassHeading |-> Some(HeldBearing), alpha |-> None],
     [webkitCompassHeading |-> Some(HeldBearing + Deg(90)), alpha |-> None]}

HeldPositionFix == positionFix(HeldPosition)

HeldOrientation ==
    \E event \in HeldEvents :
        /\ headingRef = None \/ headingRef = Some(headingValueOf(event))
        /\ handleOrientation(event)

NextHeld ==
    \/ Mount
    \/ RequestPermission
    \/ SensorEffect
    \/ HeldPositionFix
    \/ PositionError
    \/ HeldOrientation
    \/ Animate
    \/ SyncEffect
    \/ Unmount
    \/ Advance

SpecHeld == Init /\ [][NextHeld]_vars

(***************************************************************************)
(* The heading filter on its own: the orientation sensor delivers samples  *)
(* of both dialects, the position sensor stays silent.                     *)
(***************************************************************************)
FilterEvents ==
    {[webkitCompassHeading |-> Some(Deg(350)), alpha |-> None],
     [webkitCompassHeading |-> Some(Deg(140)), alpha |-> None],
     [webkitCompassHeading |-> None, alpha |-> Some(Deg(200))],
     [webkitCompassHeading |-> None, alpha |-> Some(0)],
     [webkitCompassHeading |-> None, alpha |-> None]}

FilterOrientation == \E event \in FilterEvents : handleOrientation(event)

NextFilter ==
    \/ Mount
    \/ RequestPermission
    \/ SensorEffect
    \/ FilterOrientation
    \/ Animate
    \/ SyncEffect
    \/ Unmount

SpecFilter == Init /\ [][NextFilter]_vars

(***************************************************************************)
(* The route state machine of spec section 4.3, fed with the distance of   *)
(* each position fix to the active waypoint (metres). The source under     *)
(* src/ has no waypoint list: its position callback only stores the fix.   *)
(***************************************************************************)
ArrivalThresholdM == 10
DivergenceThresholdM == 25
MaxWaypoints == 3       \* longest list the route provider returns
MaxReroutes == 2        \* fixes stop once this many reroutes were requested for one list

\* the distances a fix can report
Distances == {5, 20, 40, 50, 80}

nonRouteVars == <<engineVars, browserVars, ghostVars, pageVars, geoVars>>

\* the rate limit: at most one request per cooldown window
mayFetch == sinceFetch # "within"

Min2(a, b) == IF a = None \/ b < a[1] THEN b ELSE a[1]

\* what the fix just processed saw and did
FixObservation(d, requested) ==
    [distance |-> d, state |-> routeState, tracker |-> minDistanceSoFar,
     cooled |-> mayFetch, requested |-> requested]

\* a fix while Idle: the first known position asks the route provider, rate-limited
idleFix(d) ==
    /\ pendingFetches' = IF mayFetch THEN pendingFetches + 1 ELSE pendingFetches
    /\ sinceFetch' = IF mayFetch THEN "within" ELSE sinceFetch
    /\ lastFix' = Some(FixObservation(d, FALSE))
    /\ UNCHANGED <<routeState, waypointCount, currentWaypointIndex,
                   minDistanceSoFar, arrivals, reroutes, diverged>>

\* a fix within the arrival threshold of the active waypoint
arrivalFixLate(d) ==
    /\ currentWaypointIndex' = currentWaypointIndex + 1
    /\ minDistanceSoFar' = None
    /\ routeState' = IF currentWaypointIndex' > waypointCount
                      THEN "Completed" ELSE "Navigating"
    /\ arrivals' = arrivals + 1
    /\ lastFix' = Some(FixObservation(d, FALSE))
    /\ UNCHANGED <<waypointCount, sinceFetch, pendingFetches, reroutes, diverged>>

arrivalFix(d) ==
    /\ currentWaypointIndex' = currentWaypointIndex + 1
    /\ minDistanceSoFar' = None
    /\ routeState' = IF currentWaypointIndex' >= waypointCount
                      THEN "Completed" ELSE "Navigating"
    /\ arrivals' = arrivals + 1
    /\ lastFix' = Some(FixObservation(d, FALSE))
    /\ UNCHANGED <<waypointCount, sinceFetch, pendingFetches, reroutes, diverged>>

\* a fix away from the active waypoint: track the minimum, reroute on divergence
awayFixNoReset(d) ==
    LET least == Min2(minDistanceSoFar, d)
        diverging == d > least + DivergenceThresholdM
        request == diverging /\ mayFetch
    IN  /\ minDistanceSoFar' = Some(least)
        /\ diverged' = (diverged \/ diverging)
        /\ reroutes' = IF request THEN reroutes + 1 ELSE reroutes
        /\ pendingFetches' = IF request THEN pendingFetches + 1 ELSE pendingFetches
        /\ sinceFetch' = IF request THEN "within" ELSE sinceFetch
        /\ lastFix' = Some(FixObservation(d, request))
        /\ UNCHANGED <<routeState, waypointCount, currentWaypointIndex, arrivals>>

awayFix(d) ==
    LET least == Min2(minDistanceSoFar, d)
        diverging == d > least + DivergenceThresholdM
        request == diverging /\ mayFetch
    IN  /\ minDistanceSoFar' = IF diverging THEN Some(d) ELSE Some(least)
        /\ diverged' = (diverged \/ diverging)
        /\ reroutes' = IF request THEN reroutes + 1 ELSE reroutes
        /\ pendingFetches' = IF request THEN pendingFetches + 1 ELSE pendingFetches
        /\ sinceFetch' = IF request THEN "within" ELSE sinceFetch
        /\ lastFix' = Some(FixObservation(d, request))
        /\ UNCHANGED <<routeState, waypointCount, currentWaypointIndex, arrivals>>

\* a fix once Completed: terminal, nothing changes
completedFix(d) ==
    /\ lastFix' = Some(FixObservation(d, FALSE))
    /\ UNCHANGED <<routeState, waypointCount, currentWaypointIndex,
                   minDistanceSoFar, sinceFetch, pendingFetches,
                   arrivals, reroutes, diverged>>

\* a position fix at distance d from the active waypoint
positionUpdate(d) ==
    /\ reroutes < MaxReroutes
    /\ CASE routeState = "Idle" -> idleFix(d)
         [] routeState = "Navigating" /\ d < ArrivalThresholdM -> arrivalFix(d)
         [] routeState = "Navigating" /\ d >= ArrivalThresholdM -> awayFix(d)
         [] routeState = "Completed" -> completedFix(d)
    /\ UNCHANGED nonRouteVars

RouteFix == \E d \in Distances : positionUpdate(d)

\* the route provider answers with a list of n points: the list is replaced
\* wholesale; Completed is terminal
routeFetched(n) ==
    /\ pendingFetches > 0
    /\ pendingFetches' = pendingFetches - 1
    /\ IF routeState = "Completed"
       THEN UNCHANGED <<routeState, waypointCount, currentWaypointIndex, minDistanceSoFar,
                        arrivals, reroutes, diverged>>
       ELSE /\ routeState' = "Navigating"
            /\ waypointCount' = n
            /\ currentWaypointIndex' = 0
            /\ minDistanceSoFar' = None
            /\ arrivals' = 0 /\ reroutes' = 0 /\ diverged' = FALSE
    /\ lastFix' = None
    /\ UNCHANGED sinceFetch
    /\ UNCHANGED nonRouteVars

RouteFetched == \E n \in 1..MaxWaypoints : routeFetched(n)

\* the route provider fails: the machine stays in its state
RouteFetchFailed ==
    /\ pendingFetches > 0
    /\ pendingFetches' = pendingFetches - 1
    /\ lastFix' = None
    /\ UNCHANGED <<routeState, waypointCount, currentWaypointIndex, minDistanceSoFar,
                   sinceFetch, arrivals, reroutes, diverged>>
    /\ UNCHANGED nonRouteVars

\* the cooldown window since the last request ends
CooldownElapses ==
    /\ sinceFetch = "within"
    /\ pendingFetches < MaxPending
    /\ sinceFetch' = "elapsed"
    /\ lastFix' = None
    /\ UNCHANGED <<routeState, waypointCount, currentWaypointIndex, minDistanceSoFar,
                   pendingFetches, arrivals, reroutes, diverged>>
    /\ UNCHANGED nonRouteVars

NextRoute ==
    \/ RouteFix
    \/ RouteFetched
    \/ RouteFetchFailed
    \/ CooldownElapses

SpecRoute == Init /\ [][NextRoute]_vars

(***************************************************************************)
(* Geodesy utilities (utils.ts). Radians and ratios are fixed-point, one   *)
(* unit = 0.0001; every rounding is toward zero, so that, as with doubles, *)
(* negating an argument negates the result exactly.                        *)
(***************************************************************************)
Scale == 10000

R == 6371000             \* utils.ts:16, metres

Div(a, n) == IF a >= 0 THEN a \div n ELSE -((-a) \div n)

Mul(a, b) == Div(a * b, Scale)

\* x * Math.PI / 180, x in units of 0.0001 degree
Rad(x) == Div(Div(x, 100) * 17453, 10000)

\* Math.sin and Math.cos for |r| up to about 1.6 rad (Taylor polynomials)
Sin(r) ==
    LET r2 == Mul(r, r)
        t5 == Scale - Div(r2, 110)
        t4 == Scale - Div(Mul(r2, t5), 72)
        t3 == Scale - Div(Mul(r2, t4), 42)
        t2 == Scale - Div(Mul(r2, t3), 20)
        t1 == Scale - Div(Mul(r2, t2), 6)
    IN  Mul(r, t1)

Cos(r) ==
    LET r2 == Mul(r, r)
        t5 == Scale - Div(r2, 90)
        t4 == Scale - Div(Mul(r2, t5), 56)
        t3 == Scale - Div(Mul(r2, t4), 30)
        t2 == Scale - Div(Mul(r2, t3), 12)
    IN  Scale - Div(Mul(r2, t2), 2)

\* the largest k in lo..hi with k * k <= n
RECURSIVE Isqrt(_, _, _)
Isqrt(n, lo, hi) ==
    IF lo = hi THEN lo
    ELSE LET mid == (lo + hi + 1) \div 2
         IN  IF mid * mid <= n THEN Isqrt(n, mid, hi) ELSE Isqrt(n, lo, mid - 1)

\* Math.sqrt on [0, 1], of an argument in units of 0.0001 * 0.0001
Sqrt(a) == Isqrt(a, 0, Scale)

\* arctangent for |u| <= tan(pi/8), then for 0 <= t <= 1
Atan(u) ==
    LET u2 == Mul(u, u)
        p4 == Div(Scale, 7) - Div(u2, 9)
        p3 == Div(Scale, 5) - Mul(u2, p4)
        p2 == Div(Scale, 3) - Mul(u2, p3)
        p1 == Scale - Mul(u2, p2)
    IN  Mul(u, p1)

Atan01(t) ==
    IF t <= 4142 THEN Atan(t)
    ELSE 7854 + Atan(Div((t - Scale) * Scale, t + Scale))

\* Math.atan2(y, x) for y >= 0 and x >= 0, the only quadrant two square roots reach
Atan2(y, x) ==
    IF y = 0 THEN 0
    ELSE IF y <= x THEN Atan01(Div(y * Scale, x))
    ELSE 15708 - Atan01(Div(x * Scale, y))

\* calculateDistance (utils.ts:15-26): haversine, result in metres; `a` is kept
\* in units of 0.0001 * 0.0001
calculateDistanceOwnLatitude(lat1, lon1, lat2, lon2) ==
    LET phi1 == Rad(lat1)
        dphi == Rad(lat2 - lat1)
        dlam == Rad(lon2 - lon1)
        a == Sin(Div(dphi, 2)) * Sin(Div(dphi, 2))
             + Mul(Mul(Cos(phi1), Cos(phi1)), Sin(Div(dlam, 2))) * Sin(Div(dlam, 2))
        c == 2 * Atan2(Sqrt(a), Sqrt(Scale * Scale - a))
    IN  Div((R \div 1000) * c, 10)

calculateDistance(lat1, lon1, lat2, lon2) ==
    LET phi1 == Rad(lat1)
        phi2 == Rad(lat2)
        dphi == Rad(lat2 - lat1)
        dlam == Rad(lon2 - lon1)
        a == Sin(Div(dphi, 2)) * Sin(Div(dphi, 2))
             + Mul(Mul(Cos(phi1), Cos(phi2)), Sin(Div(dlam, 2))) * Sin(Div(dlam, 2))
        c == 2 * Atan2(Sqrt(a), Sqrt(Scale * Scale - a))
    IN  Div((R \div 1000) * c, 10)

\* the coordinate pairs distances are taken between
Points ==
    {[latitude |-> 0, longitude |-> 0],
     [latitude |-> 0, longitude |-> 10000],
     [latitude |-> 100000, longitude |-> 100000],
     [latitude |-> 332800, longitude |-> 1315000],
     [latitude |-> TARGET_LAT, longitude |-> TARGET_LON],
     [latitude |-> 515000, longitude |-> -1000],
     [latitude |-> 600000, longitude |-> 300000],
     [latitude |-> 900000, longitude |-> 0],
     [latitude |-> -300000, longitude |-> -200000],
     [latitude |-> -338600, longitude |-> 1512000],
     [latitude |-> -900000, longitude |-> 0]}

\* calculateDistance called on a pair of points, both ways round, and on a point
\* and itself
Measure ==
    /\ \E a \in Points, b \in Points :
          measured' = Some([a |-> a, b |-> b,
                            ab |-> calculateDistance(a.latitude, a.longitude,
                                                     b.latitude, b.longitude),
                            ba |-> calculateDistance(b.latitude, b.longitude,
                                                     a.latitude, a.longitude),
                            aa |-> calculateDistance(a.latitude, a.longitude,
                                                     a.latitude, a.longitude)])
    /\ UNCHANGED <<engineVars, browserVars, ghostVars, pageVars, routeVars>>

NextGeo == Measure

SpecGeo == Init /\ [][NextGeo]_vars

(***************************************************************************)
(* Reference notions the properties are stated with.                       *)
(***************************************************************************)
\* shortest angular distance between two directions, in [0, 180] degrees
AngularError(a, b) ==
    LET d == (b - a) % Deg(360)
    IN  IF d > Deg(180) THEN Deg(360) - d ELSE d

InCone(a, b) == AngularError(a, b) < Deg(ConeDeg)

WaypointInCone(o) ==
    o.waypointBearing # None /\ InCone(o.heading, o.waypointBearing[1])

OneDrone == droneOscillators = DroneFrequencies /\ droneGain # NULL /\ lfo # NULL

NoDrone == droneOscillators = <<>> /\ droneGain = NULL /\ lfo = NULL

(***************************************************************************)
(* Properties.                                                             *)
(***************************************************************************)

\* C1: any two chimes, of whatever kind, are at least the 2000 ms cooldown apart.
C1_ChimesCooldownApart ==
    \A i, j \in 1..Len(chimes) :
        i < j => chimes[j].at - chimes[i].at >= CooldownMs

\* two chimes exactly one cooldown apart, the second fired by a call that found
\* the cooldown just elapsed
C1_Witness ==
    /\ Len(chimes) = 2
    /\ chimes[2].at - chimes[1].at = CooldownMs
    /\ chimes[1].kind # chimes[2].kind

\* C2: an update call on a live engine whose cooldown has elapsed and that has both
\* the waypoint and the destination bearing in the cone fires exactly one chime,
\* the waypoint chime.
C2_WaypointPriority ==
    lastUpdate # None =>
        LET o == lastUpdate[1]
        IN  (~o.inert /\ o.elapsed /\ WaypointInCone(o)
                /\ InCone(o.heading, o.targetBearing))
            => o.fired = <<"waypoint">>

C2_Witness ==
    /\ lastUpdate # None
    /\ ~lastUpdate[1].inert /\ lastUpdate[1].elapsed
    /\ WaypointInCone(lastUpdate[1])
    /\ InCone(lastUpdate[1].heading, lastUpdate[1].targetBearing)
    /\ lastUpdate[1].fired = <<"waypoint">>
    /\ chimes[Len(chimes)] = [kind |-> "waypoint", at |-> now]

\* C3: an update call on a live engine whose cooldown has elapsed, with the waypoint
\* bearing absent or outside the cone and the destination bearing inside it, fires
\* the destination chime and sets the cooldown timestamp to the time of the call.
C3_DestinationChime ==
    lastUpdate # None =>
        LET o == lastUpdate[1]
        IN  (~o.inert /\ o.elapsed /\ ~WaypointInCone(o)
                /\ InCone(o.heading, o.targetBearing))
            => /\ o.fired = <<"destination">>
               /\ lastTriggerTime = now
               /\ chimes[Len(chimes)].at = now

\* the destination chime fired although a waypoint bearing was supplied
C3_Witness ==
    /\ lastUpdate # None
    /\ lastUpdate[1].waypointBearing # None
    /\ ~WaypointInCone(lastUpdate[1])
    /\ lastUpdate[1].fired = <<"destination">>
    /\ lastTriggerTime = now

\* C4: a chime of a kind fires only if the shortest-path angular error between the
\* heading and that kind's bearing is inside the 15 degree cone, and no chime fires
\* when no supplied bearing is inside it.
C4_ChimeOnlyInCone ==
    lastUpdate # None =>
        LET o == lastUpdate[1]
        IN  /\ \A i \in 1..Len(o.fired) :
                  /\ o.fired[i] = "waypoint" => WaypointInCone(o)
                  /\ o.fired[i] = "destination" => InCone(o.heading, o.targetBearing)
            /\ (~WaypointInCone(o) /\ ~InCone(o.heading, o.targetBearing))
                  => o.fired = <<>>

\* heading 355, bearing 5: the error is 10 degrees across the 0/360 boundary
C4_Witness ==
    /\ lastUpdate # None
    /\ lastUpdate[1].heading = Deg(355)
    /\ lastUpdate[1].targetBearing = Deg(5)
    /\ lastUpdate[1].waypointBearing = None
    /\ lastUpdate[1].fired = <<"destination">>

\* C5: a start() call that leaves the engine with a context leaves it with exactly
\* one drone graph; a start() call on an engine that already has its drone changes
\* no node; an update() call changes no drone node.
C5_StartIdempotent ==
    [][/\ (row' # row /\ row'.op = "start" /\ context' # NULL) => OneDrone'
       /\ (row' # row /\ row'.op = "start" /\ context # NULL /\ OneDrone)
             => UNCHANGED <<droneOscillators, droneGain, lfo, masterGain, lastTriggerTime>>
       /\ lastUpdate' # None => UNCHANGED <<droneOscillators, droneGain, lfo>>]_vars

\* start() has just been called for the second time in a row
C5_Witness ==
    /\ row = [op |-> "start", n |-> 2]
    /\ context = "running"
    /\ OneDrone

\* C6: after two stop() calls in a row, once every pending timer and close()
\* settlement has run, no error has escaped and no drone node and no context is left.
C6_StopTwiceSilent ==
    (row = [op |-> "stop", n |-> 2] /\ timers = <<>> /\ closes = <<>>)
        => ~escaped /\ NoDrone /\ context = NULL

\* C7: where the audio context cannot be created the engine stays inert: no error
\* escapes init() or start(), nothing is ever created, and no update() call fires a
\* chime or changes anything; an update() on an engine without a context is a no-op.
C7_InertWithoutAudio ==
    /\ ~audioAvailable =>
          /\ ~escaped
          /\ context = NULL /\ masterGain = NULL /\ NoDrone
          /\ chimes = <<>> /\ lastTriggerTime = 0
          /\ timers = <<>> /\ closes = <<>>
    /\ (lastUpdate # None /\ lastUpdate[1].inert) =>
          ~lastUpdate[1].changed /\ lastUpdate[1].fired = <<>>

\* start() failed, then update() was called with the destination dead ahead
C7_Witness ==
    /\ ~audioAvailable
    /\ row.op = "start"
    /\ lastUpdate # None
    /\ lastUpdate[1].inert /\ lastUpdate[1].elapsed
    /\ InCone(lastUpdate[1].heading, lastUpdate[1].targetBearing)

HeldAligned == headingRef = Some(HeldBearing)

HeldOff == headingRef = Some(HeldBearing + Deg(90))

\* a heading and a position are known, the audio-sync effect has run, audio is live
HeldSettled ==
    heading # None /\ coords # None /\ pendingSync = None /\ context # NULL

C9_FreshArguments ==
    lastUpdate # None =>
        /\ heading # None /\ coords # None
        /\ lastUpdate[1].heading = heading[1]
        /\ lastUpdate[1].targetBearing =
              calculateBearing(coords[1].latitude, coords[1].longitude,
                               TARGET_LAT, TARGET_LON)

\* an update() call made while the smoothed heading is still catching up with the raw one
C9_Witness ==
    /\ lastUpdate # None
    /\ headingRef # heading
    /\ lastUpdate[1].heading = heading[1]
    /\ coords = Some([latitude |-> 332800, longitude |-> 1315128])

\* C10: after teardown no rendering tick, no sensor subscription and no drone is left
\* (once the timers and close() settlements of stop() have run).
C10_TeardownStopsEverything ==
    (phase = "torndown" /\ timers = <<>> /\ closes = <<>>)
        => /\ ~frameScheduled /\ ~geoWatch /\ ~orientationListener
           /\ NoDrone

(***************************************************************************)
(* Heading filter.                                                         *)
(***************************************************************************)
\* C11: on every smoothing tick the smoothed heading stays on the shorter arc
\* between its previous value and the raw heading (also across 0/360), so the
\* shortest angular distance to the raw heading never increases.
C11_ShorterArc ==
    (lastTick # None /\ lastTick[1].prev # None) =>
        LET prev == lastTick[1].prev[1]
            raw == lastTick[1].raw
            next == lastTick[1].next[1]
        IN  /\ AngularError(next, raw) <= AngularError(prev, raw)
            /\ AngularError(prev, next) + AngularError(next, raw) = AngularError(prev, raw)

\* smoothed 0, raw 350: the blending tick goes down through the 0/360 boundary
C11_Witness ==
    lastTick = Some([prev |-> Some(0), raw |-> Deg(350), next |-> Some(Deg(358) + 50)])

\* what a blending tick makes of the smoothed heading: 0.15 of the difference
Blended(prev, raw) == (prev + Blend(shortestPath(raw - prev)) + Deg(360)) % Deg(360)

\* C12 as claimed: a raw heading exactly 170 degrees from the smoothed heading is
\* blended in by the next tick.
C12_Jump170Blends ==
    (lastTick # None /\ lastTick[1].prev # None
        /\ AngularError(lastTick[1].prev[1], lastTick[1].raw) = Deg(170))
    => lastTick[1].next = Some(Blended(lastTick[1].prev[1], lastTick[1].raw))

\* C12, amended: a raw heading more than 100 degrees from the smoothed heading (170
\* degrees included) snaps the smoothed heading to the raw value; one at most 100
\* degrees away is blended in by 0.15 of the difference.
C12_Jump170Snaps ==
    (lastTick # None /\ lastTick[1].prev # None) =>
        LET prev == lastTick[1].prev[1]
            raw == lastTick[1].raw
        IN  /\ AngularError(prev, raw) = Deg(170) => lastTick[1].next = Some(raw)
            /\ AngularError(prev, raw) > Deg(100) => lastTick[1].next = Some(raw)
            /\ AngularError(prev, raw) <= Deg(100) => lastTick[1].next = Some(Blended(prev, raw))

\* smoothed 350, raw 160: a jump of exactly 170 degrees, snapped
C12_Witness ==
    lastTick = Some([prev |-> Some(Deg(350)), raw |-> Deg(160), next |-> Some(Deg(160))])

\* the smoothed heading after n more ticks with the raw heading held
RECURSIVE smoothN(_, _, _)
smoothN(prev, raw, n) ==
    LET next == smooth(prev, raw)
    IN  IF n = 0 \/ next = prev THEN prev ELSE smoothN(next, raw, n - 1)

\* C13: with the raw heading held, ConvergeTicks ticks bring the smoothed heading to
\* within Tolerance of it from wherever it is between two ticks of the running loop,
\* and a tick made within Tolerance stays within Tolerance.
C13_Converges ==
    /\ (phase = "mounted" /\ heading # None /\ headingRef # None
           /\ lastTick = None /\ pendingSync = None) =>
           AngularError(smoothN(heading, headingRef, ConvergeTicks)[1], headingRef[1])
               <= Tolerance
    /\ (lastTick # None /\ lastTick[1].prev # None
           /\ AngularError(lastTick[1].prev[1], lastTick[1].raw) <= Tolerance)
        => AngularError(lastTick[1].next[1], lastTick[1].raw) <= Tolerance

\* the tick that brings a blended heading within Tolerance of the raw heading
C13_Witness ==
    /\ lastTick # None
    /\ lastTick[1].prev # None
    /\ AngularError(lastTick[1].prev[1], lastTick[1].raw) > Tolerance
    /\ AngularError(lastTick[1].prev[1], lastTick[1].raw) < Deg(1)
    /\ AngularError(lastTick[1].next[1], lastTick[1].raw) <= Tolerance

\* C14: the raw heading and the smoothed heading, when set, are in [0, 360).
C14_HeadingsInRange ==
    /\ headingRef # None => (0 <= headingRef[1] /\ headingRef[1] < Deg(360))
    /\ heading # None => (0 <= heading[1] /\ heading[1] < Deg(360))

(***************************************************************************)
(* Route state machine.                                                    *)
(***************************************************************************)
\* C15: the waypoint index has advanced once per arrival fix, and the machine is
\* Completed exactly when as many arrival fixes as the list has waypoints were
\* processed: N arrivals on a list of length N end in Completed with index N.
C15_ArrivalsComplete ==
    routeState # "Idle" =>
        /\ currentWaypointIndex = arrivals
        /\ arrivals <= waypointCount
        /\ (arrivals = waypointCount) <=> (routeState = "Completed")

\* a list of three waypoints, the third arrival just processed
C15_Witness ==
    /\ routeState = "Completed"
    /\ waypointCount = MaxWaypoints
    /\ currentWaypointIndex = MaxWaypoints
    /\ lastFix # None
    /\ lastFix[1].state = "Navigating"
    /\ lastFix[1].distance < ArrivalThresholdM

\* C16 as claimed: once a fix has risen more than 25 m above the minimum observed,
\* exactly one reroute request has been issued, until the list is replaced.
C16_ExactlyOneReroute ==
    (routeState = "Navigating" /\ diverged) => reroutes = 1

\* the fix just processed, while Navigating, was more than 25 m above the tracker
Diverging(o) ==
    /\ o.state = "Navigating"
    /\ o.distance >= ArrivalThresholdM
    /\ o.tracker # None
    /\ o.distance > o.tracker[1] + DivergenceThresholdM

\* C16, amended: a fix issues a reroute request exactly when it is more than 25 m
\* above the minimum observed and the fetch cooldown has elapsed; a diverging fix
\* resets the tracker to its distance, and a request starts a cooldown window, so
\* the fixes that follow do not each issue another.
C16_RerouteOnDivergenceOnly ==
    lastFix # None =>
        LET o == lastFix[1]
        IN  /\ o.requested <=> (Diverging(o) /\ o.cooled)
            /\ Diverging(o) => minDistanceSoFar = Some(o.distance)
            /\ o.requested => sinceFetch = "within"

\* 20 m was the minimum; the fix at 50 m requests the one reroute
C16_Witness ==
    /\ lastFix # None
    /\ lastFix[1].requested
    /\ lastFix[1].tracker = Some(20)
    /\ lastFix[1].distance = 50
    /\ reroutes = 1

(***************************************************************************)
(* Guidance loop and sensors.                                              *)
(***************************************************************************)
\* C17: whenever update() has just been called by the loop, a position fix and a
\* heading sample have been received and a smoothed heading exists; it is called
\* with that smoothed heading and the bearing from that position.
C17_UpdateOnlyWithData ==
    lastUpdate # None =>
        /\ coords # None
        /\ headingRef # None
        /\ heading # None
        /\ lastUpdate[1].heading = heading[1]
        /\ lastUpdate[1].targetBearing =
               calculateBearing(coords[1].latitude, coords[1].longitude,
                                TARGET_LAT, TARGET_LON)

\* the update() call made for the first position fix, the heading known before it
C17_Witness ==
    /\ lastUpdate # None
    /\ lastUpdate[1].heading = headingRef[1]
    /\ coords = Some([latitude |-> 332800, longitude |-> 1315000])
    /\ chimes = <<>>

\* the strings the position error callback can show
GpsErrors ==
    {"Location Access Denied. Please allow in settings.",
     "GPS Timeout. Moving to open area may help.",
     "GPS Error"}

\* C18: a step that puts a position error string in place changes nothing else of
\* the session (position, headings, subscriptions, rendering loop, audio), the
\* session is still running after it, and a step that stores a new position
\* clears the error string and leaves the render for the audio sync.
C18_PositionErrorFrame ==
    [][/\ (error' # error /\ error' \in GpsErrors) =>
              /\ UNCHANGED <<coords, heading, headingRef, geoWatch, orientationListener,
                             frameScheduled, phase, permissionGranted, audioStarted,
                             pendingSync, engineVars, timers, closes, chimes, escaped>>
              /\ geoWatch' /\ orientationListener' /\ frameScheduled'
              /\ phase' = "mounted"
       /\ coords' # coords =>
              /\ error' = ""
              /\ pendingSync' = Captured(heading, coords')]_vars

\* a position error after a fix: the position is kept and the session runs on
C18_Witness ==
    /\ error \in GpsErrors
    /\ coords # None
    /\ heading # None
    /\ geoWatch /\ orientationListener /\ frameScheduled

\* C19: no chime is silenced before its envelope ends; stop() leaves an in-flight
\* chime to run to completion.
C19_ChimesRunToCompletion == ~cut

\* C20: from mount to teardown a rendering tick is scheduled; after teardown none
\* is, and no tick runs; unless the loop is torn down (or never mounted), the
\* tick runs infinitely often.
C20_LoopKeepsRunning ==
    /\ [](phase = "mounted" => frameScheduled)
    /\ [](phase = "torndown" => ~frameScheduled)
    /\ [][phase = "torndown" => tick' = tick]_vars
    /\ (<>[](phase # "mounted")) \/ ([]<>tick /\ []<>~tick)

\* mounted, audio unavailable, a position error shown, and ticks have run
C20_Witness ==
    /\ phase = "mounted"
    /\ frameScheduled
    /\ tick
    /\ audioStarted /\ context = NULL
    /\ error \in GpsErrors
    /\ headingRef = None

(***************************************************************************)
(* Geodesy.                                                                *)
(***************************************************************************)
\* C21: the distance from a point to itself is 0, and the distance from a to b
\* equals the distance from b to a.
C21_DistanceSymmetric ==
    measured # None =>
        /\ measured[1].aa = 0
        /\ measured[1].ab = measured[1].ba

\* one degree of longitude on the equator: about 111.2 km, both ways round
C21_Witness ==
    /\ measured # None
    /\ measured[1].a = [latitude |-> 0, longitude |-> 0]
    /\ measured[1].b = [latitude |-> 0, longitude |-> 10000]
    /\ measured[1].ab > 110000
    /\ measured[1].ab < 112500

(***************************************************************************)
(* Heading filter, step by step.                                           *)
(***************************************************************************)
\* the shortest signed angle from a to b, in [-180, 180) degrees
SignedError(a, b) == ((b - a + Deg(180)) % Deg(360)) - Deg(180)

\* C22: a tick with no smoothed heading yet copies the raw heading; otherwise,
\* with diff the shortest signed angle from smoothed to raw, it copies the raw
\* heading if |diff| > 100 and else yields (smoothed + 0.15 * diff + 360) mod 360.
C22_SmoothingStep ==
    lastTick # None =>
        LET raw == lastTick[1].raw
        IN  IF lastTick[1].prev = None THEN lastTick[1].next = Some(raw)
            ELSE LET prev == lastTick[1].prev[1]
                     diff == SignedError(prev, raw)
                 IN  IF Abs(diff) > Deg(100)
                     THEN lastTick[1].next = Some(raw)
                     ELSE lastTick[1].next =
                              Some((prev + Blend(diff) + Deg(360)) % Deg(360))

\* smoothed 0, raw 350: diff is -10 and the tick yields 358.5 = (0 - 1.5 + 360) mod 360
C22_Witness ==
    /\ lastTick # None
    /\ lastTick[1].prev = Some(0)
    /\ lastTick[1].raw = Deg(350)
    /\ heading = Some(Deg(358) + 50)
    /\ pendingSync # None

\* C23: a step that changes the raw heading changes nothing else of the session,
\* the smoothed heading least of all; the smoothed heading changes only in a
\* rendering tick, to the one value that tick computed; and while there is no raw
\* heading the smoothed heading stays unset.
C23_SampleOnlySetsRaw ==
    [][/\ headingRef' # headingRef =>
              UNCHANGED <<heading, coords, error, pendingSync, frameScheduled, tick,
                          geoWatch, orientationListener, phase, engineVars, chimes>>
       /\ heading' # heading =>
              /\ tick' # tick
              /\ lastTick' # None
              /\ heading' = lastTick'[1].next
              /\ UNCHANGED headingRef
       /\ headingRef = None => heading' = None]_vars

\* the smoothed heading is 350 and a sample of 140 has arrived: it is still 350
C23_Witness ==
    /\ heading = Some(Deg(350))
    /\ headingRef = Some(Deg(140))
    /\ lastTick = None
    /\ pendingSync = None
    /\ phase = "mounted"

\* the headings the sensor reports in the samples it delivers
Reported(event) ==
    IF event.webkitCompassHeading # None /\ event.webkitCompassHeading[1] # 0
    THEN {event.webkitCompassHeading[1]}
    ELSE IF event.alpha # None THEN {Deg(360) - event.alpha[1]}
    ELSE {}

\* C27: the raw heading is always a heading that some sample reported; a sample
\* without a usable heading leaves it alone.
C27_RawFromSensorOnly ==
    headingRef # None => \E event \in FilterEvents : headingRef[1] \in Reported(event)

(***************************************************************************)
(* Chimes and lifecycle, continued.                                        *)
(***************************************************************************)
\* C24: the page keeps no waypoints, and no waypoint chime is ever played.
C24_NoWaypointChime ==
    \A i \in 1..Len(chimes) : chimes[i].kind # "waypoint"

\* C25: while stop() is the latest lifecycle call, an update() call fires nothing
\* and leaves the cooldown timestamp alone.
C25_StoppedIsInert ==
    (lastUpdate # None /\ row.op = "stop") =>
        /\ lastUpdate[1].fired = <<>>
        /\ ~lastUpdate[1].stamped
        /\ ~lastUpdate[1].changed

\* C26: while start() is the latest lifecycle call and audio is available, once
\* no timer and no close() settlement is pending, one drone runs on a live context.
C26_StartedMeansRunning ==
    (row.op = "start" /\ audioAvailable /\ timers = <<>> /\ closes = <<>>) =>
        /\ context = "running"
        /\ OneDrone

====
